---------------------------- MODULE Spec2Model ----------------------------
(***************************************************************************)
(* A model of freqtrade/resolvers/iresolver.py: IResolver._search_object   *)
(* scanning one directory, IResolver._get_valid_object loading one source  *)
(* file and matching a class in it, and the pathlib / importlib calls the  *)
(* two make; and of freqtrade/rpc/__init__.py: init, cleanup and send_msg  *)
(* over the module-level list REGISTERED_MODULES.                          *)
(***************************************************************************)
EXTENDS Integers, Sequences, FiniteSets, TLC

VARIABLES
    fs,              \* the file system: the entries of the directories, in listing order
    DEFAULT_KWARGS,  \* the dict object of the default `kwargs: dict = {}`
    caller_kwargs,   \* the caller's mapping object, when it supplies one
    pc,              \* the position of the current _search_object call
    directory,       \* parameter `directory`
    kwargs_ref,      \* which dict object parameter `kwargs` is bound to
    todo,            \* what directory.iterdir() has still to yield
    objs,            \* local `objs`
    loaded,          \* the module paths handed to exec_module, in order
    warnings,        \* the module paths logger.warning was called for
    ctor_calls,      \* the constructor invocations obj(**kwargs) of this call
    result,          \* what the call returned or raised
    prev,            \* what the caller kept of the first call that ended
    REGISTERED_MODULES,  \* rpc: the module-level list REGISTERED_MODULES
    telegram_calls   \* rpc: the calls made into the telegram module, in order

\* the state of freqtrade/rpc/__init__.py
rpc_vars == <<REGISTERED_MODULES, telegram_calls>>

vars == <<fs, DEFAULT_KWARGS, caller_kwargs, pc, directory, kwargs_ref, todo,
          objs, loaded, warnings, ctor_calls, result, prev, rpc_vars>>

---------------------------------------------------------------------------
(* Bounds *)

\* the largest number of entries in the file system
MaxEntries == 3

\* the largest number of calls made into the telegram module
MaxTelegramCalls == 5

---------------------------------------------------------------------------
(* Paths: pathlib.Path as a flag and a sequence of parts; a part is a      *)
(* sequence of tokens, the last being the suffix of a file name.           *)

Cwd == [abs |-> TRUE, parts |-> << <<"home">> >>]

NoPath == [abs |-> FALSE, parts |-> <<>>]

DirNames == {"d1", "d2"}

Stems == <<"f1", "f2", "f3", "f4", "f5", "f6">>

joinpath(a, b) ==
    IF b.abs THEN b ELSE [abs |-> a.abs, parts |-> a.parts \o b.parts]

resolve(p) == IF p.abs THEN p ELSE joinpath(Cwd, p)

\* str(entry).endswith('.py')
endswith_py(p) ==
    /\ p.parts # <<>>
    /\ LET last == p.parts[Len(p.parts)] IN last[Len(last)] = ".py"

RelDir(d) == [abs |-> FALSE, parts |-> << <<d>> >>]

AbsDir(d) == resolve(RelDir(d))

---------------------------------------------------------------------------
(* Source files: what executing the top level of a file does.              *)

ClassDef(n, b) == [op |-> "class", name |-> n, bases |-> b, exc |-> "none"]

Raise(e) == [op |-> "raise", name |-> "none", bases |-> {}, exc |-> e]

Kinds == {"good", "other", "indirect", "malformed", "partial", "nameerr",
          "txt", "dirpy"}

IsFile(kind) == kind # "dirpy"

Suffix(kind) == IF kind = "txt" THEN ".txt" ELSE ".py"

\* FALSE: compiling the source raises SyntaxError before any statement runs
Compiles(kind) == kind # "malformed"

Stmts(kind) ==
    CASE kind = "good"     -> << ClassDef("MyStrat", {"IStrategy"}) >>
      [] kind = "other"    -> << ClassDef("mystrat", {"IStrategy"}),
                                 ClassDef("Other", {"IStrategy"}) >>
      [] kind = "indirect" -> << ClassDef("Mid", {"IStrategy"}),
                                 ClassDef("MyStrat", {"Mid"}) >>
      [] kind = "partial"  -> << ClassDef("MyStrat", {"IStrategy"}),
                                 Raise("ModuleNotFoundError") >>
      [] kind = "nameerr"  -> << Raise("NameError") >>
      [] kind = "txt"      -> << ClassDef("MyStrat", {"IStrategy"}) >>
      [] OTHER             -> << >>

\* the name of entry i of the file system
EntryName(i) == << fs[i].name, Suffix(fs[i].kind) >>

\* the absolute location of entry i
EntryPath(i) ==
    joinpath(AbsDir(fs[i].dir), [abs |-> FALSE, parts |-> << EntryName(i) >>])

InDir(d) == { i \in 1..Len(fs) : AbsDir(fs[i].dir) = resolve(d) }

RECURSIVE listing(_, _)
listing(d, i) ==
    IF i > Len(fs) THEN <<>>
    ELSE (IF i \in InDir(d)
            THEN << joinpath(d, [abs |-> FALSE, parts |-> << EntryName(i) >>]) >>
            ELSE <<>>) \o listing(d, i + 1)

\* directory.iterdir(): the children, each the directory joined with a name
iterdir(d) == listing(d, 1)

---------------------------------------------------------------------------
(* Loading: importlib's spec.loader.exec_module on a module path.          *)

FileAt(p) == { i \in 1..Len(fs) : EntryPath(i) = p }

\* a module namespace: a function from the names bound in it to the bases
\* of the class bound to the name
EmptyNs == [n \in {} |-> {}]

RECURSIVE exec_stmts(_, _)
exec_stmts(stmts, ns) ==
    IF stmts = <<>> THEN [ns |-> ns, err |-> "none"]
    ELSE LET s == Head(stmts) IN
         IF s.op = "raise" THEN [ns |-> ns, err |-> s.exc]
         ELSE exec_stmts(Tail(stmts), (s.name :> s.bases) @@ ns)

\* the namespace the module is left with, and the exception raised if any
exec_module(module_path) ==
    IF FileAt(module_path) = {}
      THEN [ns |-> EmptyNs, err |-> "FileNotFoundError"]
    ELSE LET kind == fs[CHOOSE i \in FileAt(module_path) : TRUE].kind IN
         IF ~IsFile(kind) THEN [ns |-> EmptyNs, err |-> "IsADirectoryError"]
         ELSE IF ~Compiles(kind) THEN [ns |-> EmptyNs, err |-> "SyntaxError"]
         ELSE exec_stmts(Stmts(kind), EmptyNs)

\* except (ModuleNotFoundError, SyntaxError)
Caught == {"ModuleNotFoundError", "SyntaxError"}

---------------------------------------------------------------------------
(* IResolver._get_valid_object                                             *)

None == [name |-> "None", bases |-> {}, module |-> NoPath]

\* as is_valid, with issubclass in place of the test of the immediate bases
is_valid_subclass(ns, name, object_type, object_name) ==
    /\ object_name = name
    /\ \/ object_type \in ns[name]
       \/ \E b \in ns[name] \cap DOMAIN ns : object_type \in ns[b]

\* object_name == name and object_type in obj.__bases__
is_valid(ns, name, object_type, object_name) ==
    /\ object_name = name
    /\ object_type \in ns[name]

valid_objects_gen(ns, module_path, object_type, object_name) ==
    { [name |-> n, bases |-> ns[n], module |-> module_path] :
        n \in { m \in DOMAIN ns : is_valid(ns, m, object_type, object_name) } }

\* next(valid_objects_gen, None)
next(gen) == IF gen = {} THEN None ELSE CHOOSE o \in gen : TRUE

\* did exec_module raise an exception the except clause catches
load_caught(err) == err \in Caught

\* the class returned (or None), the exception raised out of the function
\* (or "none"), and whether the warning was logged
_get_valid_object(object_type, module_path, object_name) ==
    LET m == exec_module(module_path) IN
    IF m.err # "none" /\ ~load_caught(m.err)
      THEN [exc |-> m.err, obj |-> None, warned |-> FALSE]
      ELSE [exc |-> "none",
            obj |-> next(valid_objects_gen(m.ns, module_path, object_type,
                                           object_name)),
            warned |-> m.err # "none"]

---------------------------------------------------------------------------
(* IResolver._search_object                                                *)

\* the requested class name and base type of the calls
ObjectName == "MyStrat"

ObjectType == "IStrategy"

\* the mappings a caller supplies as kwargs; a mapping is its set of items
KwargsInputs == { {<<"paramA", 5>>, <<"config", 1>>} }

NoResult == [kind |-> "none", instance |-> None, kwargs |-> {},
             module_path |-> NoPath, exc |-> "none", paths |-> <<>>]

\* the dict object parameter `kwargs` is bound to
Deref(ref) == IF ref = "default" THEN DEFAULT_KWARGS ELSE caller_kwargs

\* as unpack, with the item of key "config" left out
unpack_without_config(kw) == { item \in kw : item[1] # "config" }

\* obj(**kwargs): the constructor receives the items of the mapping
unpack(kw) == { item \in kw : TRUE }

\* [str(m) for (_, m) in objs]
RECURSIVE module_paths(_)
module_paths(os) ==
    IF os = <<>> THEN <<>> ELSE << Head(os).module_path >> \o module_paths(Tail(os))

\* lines 51-59: the call binds its parameters and starts with objs = []
Call(d, supplied, kw) ==
    /\ pc = "idle"
    /\ directory' = d
    /\ kwargs_ref' = IF supplied THEN "caller" ELSE "default"
    /\ caller_kwargs' = IF supplied THEN kw ELSE {}
    /\ objs' = <<>>
    /\ todo' = iterdir(d)
    /\ loaded' = <<>>
    /\ warnings' = <<>>
    /\ ctor_calls' = <<>>
    /\ result' = NoResult
    /\ pc' = "scanning"
    /\ UNCHANGED <<fs, DEFAULT_KWARGS, prev, rpc_vars>>

\* lines 62-64: an entry that does not end with '.py' is ignored
Ignore ==
    /\ pc = "scanning"
    /\ todo # <<>>
    /\ ~endswith_py(Head(todo))
    /\ todo' = Tail(todo)
    /\ UNCHANGED <<fs, DEFAULT_KWARGS, caller_kwargs, pc, directory, kwargs_ref,
                   objs, loaded, warnings, ctor_calls, result,
                   prev, rpc_vars>>

\* line 65
ModulePath(entry) == resolve(joinpath(directory, entry))

\* lines 65-70: the entry is loaded and its match, if any, is appended
Load ==
    /\ pc = "scanning"
    /\ todo # <<>>
    /\ endswith_py(Head(todo))
    /\ LET module_path == ModulePath(Head(todo))
           r == _get_valid_object(ObjectType, module_path, ObjectName)
       IN /\ r.exc = "none"
          /\ objs' = IF r.obj # None
                       THEN Append(objs, [obj |-> r.obj, module_path |-> module_path])
                       ELSE objs
          /\ loaded' = Append(loaded, module_path)
          /\ warnings' = IF r.warned THEN Append(warnings, module_path) ELSE warnings
    /\ todo' = Tail(todo)
    /\ UNCHANGED <<fs, DEFAULT_KWARGS, caller_kwargs, pc, directory, kwargs_ref,
                   ctor_calls, result,
                   prev, rpc_vars>>

\* lines 66-68: an exception _get_valid_object does not catch leaves the call
Abort ==
    /\ pc = "scanning"
    /\ todo # <<>>
    /\ endswith_py(Head(todo))
    /\ LET module_path == ModulePath(Head(todo))
           r == _get_valid_object(ObjectType, module_path, ObjectName)
       IN /\ r.exc # "none"
          /\ loaded' = Append(loaded, module_path)
          /\ result' = [NoResult EXCEPT !.kind = "raise", !.exc = r.exc]
    /\ pc' = "raised"
    /\ UNCHANGED <<fs, DEFAULT_KWARGS, caller_kwargs, directory, kwargs_ref, todo,
                   objs, warnings, ctor_calls,
                   prev, rpc_vars>>

\* line 60: the listing is exhausted and the loop ends
Aggregate ==
    /\ pc = "scanning"
    /\ todo = <<>>
    /\ pc' = "aggregated"
    /\ UNCHANGED <<fs, DEFAULT_KWARGS, caller_kwargs, directory, kwargs_ref, todo,
                   objs, loaded, warnings, ctor_calls, result,
                   prev, rpc_vars>>

\* lines 71-72
NotFound ==
    /\ pc = "aggregated"
    /\ Len(objs) = 0
    /\ result' = [NoResult EXCEPT !.kind = "return"]
    /\ pc' = "not_found"
    /\ UNCHANGED <<fs, DEFAULT_KWARGS, caller_kwargs, directory, kwargs_ref, todo,
                   objs, loaded, warnings, ctor_calls,
                   prev, rpc_vars>>

\* obj(**kwargs): the instance and the arguments its constructor was given
construct(obj, kw) == [cls |-> obj, kwargs |-> unpack(kw)]

\* as to_instantiate, taking the first candidate of any non-empty list
to_instantiate_first(os) == IF Len(os) >= 1 THEN << os[1] >> ELSE <<>>

\* as to_instantiate, taking the last candidate of any non-empty list
to_instantiate_last(os) == IF Len(os) >= 1 THEN << os[Len(os)] >> ELSE <<>>

\* the candidates the decision of lines 73-75 instantiates
to_instantiate(os) == IF Len(os) = 1 THEN << os[1] >> ELSE <<>>

\* lines 73-75
Instantiate ==
    /\ pc = "aggregated"
    /\ to_instantiate(objs) # <<>>
    /\ LET c == to_instantiate(objs)[1]
           inst == construct(c.obj, Deref(kwargs_ref))
       IN /\ ctor_calls' = Append(ctor_calls, inst)
          /\ result' = [NoResult EXCEPT !.kind = "return", !.instance = inst.cls,
                                        !.kwargs = inst.kwargs,
                                        !.module_path = c.module_path]
    /\ pc' = "instantiated"
    /\ UNCHANGED <<fs, DEFAULT_KWARGS, caller_kwargs, directory, kwargs_ref, todo,
                   objs, loaded, warnings,
                   prev, rpc_vars>>

\* lines 76-82
Ambiguous ==
    /\ pc = "aggregated"
    /\ Len(objs) > 1
    /\ result' = [NoResult EXCEPT !.kind = "raise", !.exc = "OperationalException",
                                  !.paths = module_paths(objs)]
    /\ pc' = "ambiguous"
    /\ UNCHANGED <<fs, DEFAULT_KWARGS, caller_kwargs, directory, kwargs_ref, todo,
                   objs, loaded, warnings, ctor_calls,
                   prev, rpc_vars>>

Ended == {"not_found", "instantiated", "ambiguous", "raised"}

\* the call is over; its frame is dropped
Return ==
    /\ pc \in Ended
    /\ pc' = "idle"
    /\ directory' = NoPath
    /\ kwargs_ref' = "default"
    /\ caller_kwargs' = {}
    /\ todo' = <<>>
    /\ objs' = <<>>
    /\ loaded' = <<>>
    /\ warnings' = <<>>
    /\ ctor_calls' = <<>>
    /\ result' = NoResult
    /\ UNCHANGED <<fs, DEFAULT_KWARGS, prev, rpc_vars>>

---------------------------------------------------------------------------
(* The specification *)

Entries == [dir : DirNames, kind : Kinds]

\* the caller has kept nothing yet
NoPrev == [dir |-> NoPath, kind |-> "none", instance |-> None,
           module_path |-> NoPath, paths |-> <<>>]

\* the entries of "d1" come first: the order across directories is immaterial
Grouped(f) == \A i, j \in 1..Len(f) : (i < j /\ f[j].dir = "d1") => f[i].dir = "d1"

\* the files are named in the order of the listing the file system starts with
Named(f) == [i \in 1..Len(f) |-> [dir |-> f[i].dir, kind |-> f[i].kind, name |-> Stems[i]]]

FileSystems ==
    { Named(f) :
        f \in { g \in UNION { [1..n -> Entries] : n \in 0..MaxEntries } : Grouped(g) } }

\* the directories a caller passes: relative to the working directory or absolute
Directories == { RelDir(d) : d \in DirNames } \cup { AbsDir(d) : d \in DirNames }

Init ==
    /\ fs \in FileSystems
    /\ DEFAULT_KWARGS = {}
    /\ caller_kwargs = {}
    /\ pc = "idle"
    /\ directory = NoPath
    /\ kwargs_ref = "default"
    /\ todo = <<>>
    /\ objs = <<>>
    /\ loaded = <<>>
    /\ warnings = <<>>
    /\ ctor_calls = <<>>
    /\ result = NoResult
    /\ prev = NoPrev
    /\ REGISTERED_MODULES = <<>>
    /\ telegram_calls = <<>>

Next ==
    \/ \E d \in Directories : \E kw \in KwargsInputs : Call(d, TRUE, kw)
    \/ \E d \in Directories : Call(d, FALSE, {})
    \/ Ignore
    \/ Load
    \/ Abort
    \/ Aggregate
    \/ NotFound
    \/ Instantiate
    \/ Ambiguous
    \/ Return

Spec == Init /\ [][Next]_vars

---------------------------------------------------------------------------
(* Two calls on one directory whose listing order changed in between: the  *)
(* caller keeps the outcome of the first call that ended.                  *)

\* the order the kinds are written in
KindSeq == <<"good", "other", "indirect", "malformed", "partial", "nameerr",
             "txt", "dirpy">>

KindRank(kind) == CHOOSE k \in 1..Len(KindSeq) : KindSeq[k] = kind

\* one file system for each set of files: the orders come from Reorder
Canonical(f) ==
    \A i, j \in 1..Len(f) :
        (i < j /\ f[i].dir = f[j].dir) => KindRank(f[i].kind) <= KindRank(f[j].kind)

Orders(n) ==
    { q \in [1..n -> 1..n] : \A i, j \in 1..n : q[i] = q[j] => i = j }

\* the directories list the same files in another order
Reorder ==
    /\ pc = "idle"
    /\ \E q \in Orders(Len(fs)) :
          LET f == [i \in 1..Len(fs) |-> fs[q[i]]] IN
          /\ f # fs
          /\ Grouped(f)
          /\ fs' = f
    /\ UNCHANGED <<DEFAULT_KWARGS, caller_kwargs, pc, directory, kwargs_ref, todo,
                   objs, loaded, warnings, ctor_calls, result, prev, rpc_vars>>

\* the call is over; the caller keeps what the first call gave
ReturnKept ==
    /\ pc \in Ended
    /\ prev' = IF prev = NoPrev
                 THEN [dir |-> directory, kind |-> pc, instance |-> result.instance,
                       module_path |-> result.module_path, paths |-> result.paths]
                 ELSE prev
    /\ pc' = "idle"
    /\ directory' = NoPath
    /\ kwargs_ref' = "default"
    /\ caller_kwargs' = {}
    /\ todo' = <<>>
    /\ objs' = <<>>
    /\ loaded' = <<>>
    /\ warnings' = <<>>
    /\ ctor_calls' = <<>>
    /\ result' = NoResult
    /\ UNCHANGED <<fs, DEFAULT_KWARGS, rpc_vars>>

\* the calls after the first are on the directory of the first
SameDirectory(d) == prev = NoPrev \/ prev.dir = d

\* the files of the two calls are all in one directory
InitOrder ==
    /\ Init
    /\ Canonical(fs)
    /\ \A i \in 1..Len(fs) : fs[i].dir = "d1"

NextOrder ==
    \/ \E d \in Directories : \E kw \in KwargsInputs :
          SameDirectory(d) /\ Call(d, TRUE, kw)
    \/ \E d \in Directories : SameDirectory(d) /\ Call(d, FALSE, {})
    \/ Ignore
    \/ Load
    \/ Abort
    \/ Aggregate
    \/ NotFound
    \/ Instantiate
    \/ Ambiguous
    \/ ReturnKept
    \/ Reorder

SpecOrder == InitOrder /\ [][NextOrder]_vars

---------------------------------------------------------------------------
(* freqtrade/rpc/__init__.py: init, cleanup and send_msg                   *)

\* the 'telegram' sections of the configs init is given; a mapping is its
\* set of items
TelegramConfigs == { {}, {<<"enabled", FALSE>>}, {<<"enabled", TRUE>>} }

Msgs == {"m1", "m2"}

\* mapping.get(key, default)
get(mapping, key, default) ==
    IF \E item \in mapping : item[1] = key
      THEN (CHOOSE item \in mapping : item[1] = key)[2]
      ELSE default

\* 'telegram' in REGISTERED_MODULES
telegram_registered == \E k \in 1..Len(REGISTERED_MODULES) : REGISTERED_MODULES[k] = "telegram"

ResolverVars == <<fs, DEFAULT_KWARGS, caller_kwargs, pc, directory, kwargs_ref, todo,
                  objs, loaded, warnings, ctor_calls, result, prev>>

\* init(config), lines 21-31
init(config) ==
    /\ Len(telegram_calls) < MaxTelegramCalls
    /\ IF get(config, "enabled", FALSE)
         THEN /\ REGISTERED_MODULES' = Append(REGISTERED_MODULES, "telegram")
              /\ telegram_calls' = Append(telegram_calls, [fn |-> "init", msg |-> "none"])
         ELSE UNCHANGED rpc_vars
    /\ UNCHANGED ResolverVars

\* cleanup(), lines 34-41
cleanup ==
    /\ Len(telegram_calls) < MaxTelegramCalls
    /\ IF telegram_registered
         THEN telegram_calls' = Append(telegram_calls, [fn |-> "cleanup", msg |-> "none"])
         ELSE UNCHANGED telegram_calls
    /\ UNCHANGED REGISTERED_MODULES
    /\ UNCHANGED ResolverVars

\* send_msg(msg), lines 44-52
send_msg(msg) ==
    /\ Len(telegram_calls) < MaxTelegramCalls
    /\ IF telegram_registered
         THEN telegram_calls' = Append(telegram_calls, [fn |-> "send_msg", msg |-> msg])
         ELSE UNCHANGED telegram_calls
    /\ UNCHANGED REGISTERED_MODULES
    /\ UNCHANGED ResolverVars

InitRpc == Init /\ fs = <<>>

NextRpc ==
    \/ \E config \in TelegramConfigs : init(config)
    \/ cleanup
    \/ \E msg \in Msgs : send_msg(msg)

SpecRpc == InitRpc /\ [][NextRpc]_vars

---------------------------------------------------------------------------
(* What the claims speak of *)

Range(q) == { q[k] : k \in 1..Len(q) }

\* the entries of the directory of the current call
Here == InDir(directory)

\* entry i is a regular file with the source-file extension
IsSource(i) == IsFile(fs[i].kind) /\ Suffix(fs[i].kind) = ".py"

\* the top level of the file runs to its end
LoadsCleanly(kind) ==
    /\ Compiles(kind)
    /\ \A k \in 1..Len(Stmts(kind)) : Stmts(kind)[k].op = "class"

\* the file's text defines a class of the requested name with the base type
\* among its immediate bases
Defines(kind) ==
    \E k \in 1..Len(Stmts(kind)) :
        /\ Stmts(kind)[k].op = "class"
        /\ Stmts(kind)[k].name = ObjectName
        /\ ObjectType \in Stmts(kind)[k].bases

\* entry i is a matching implementation: a source file that loads and
\* defines the requested class
Implements(i) == IsSource(i) /\ LoadsCleanly(fs[i].kind) /\ Defines(fs[i].kind)

\* the absolute locations of the entries of S from index i on, in listing order
RECURSIVE PathsFrom(_, _)
PathsFrom(S, i) ==
    IF i > Len(fs) THEN <<>>
    ELSE (IF i \in S THEN << EntryPath(i) >> ELSE <<>>) \o PathsFrom(S, i + 1)

\* the call was given an absolute directory that holds no directory named *.py
PlainCall ==
    /\ directory.abs
    /\ \A i \in Here : IsFile(fs[i].kind)

---------------------------------------------------------------------------
(* C1 *)

\* the matching implementations of the directory of the current call
Matching == { i \in Here : Implements(i) }

\* C1: a call that loaded two or more matching implementations of its directory
\* ends with the ambiguity error (OperationalException), and the error lists
\* exactly the paths of the matching files, each once, in listing order.
C1_AmbiguityListsMatches ==
    (/\ pc \in Ended
     /\ PlainCall
     /\ Cardinality({ i \in Matching : EntryPath(i) \in Range(loaded) }) >= 2)
        => /\ pc = "ambiguous"
           /\ result.exc = "OperationalException"
           /\ result.paths = PathsFrom(Matching, 1)

---------------------------------------------------------------------------
(* C2 *)

\* the matching implementations of the whole search path
MatchingAnywhere == { i \in 1..Len(fs) : Implements(i) }

\* C2: when two matching implementations are in two different directories of
\* the search path, no call returns an instance of one of them.
C2_NoInstanceWhenAmbiguousAcrossPath ==
    (pc = "instantiated")
        => ~ \E i, j \in MatchingAnywhere : fs[i].dir # fs[j].dir

---------------------------------------------------------------------------
(* C3 *)

\* C3: a source file that fails to load does not abort the scan: when the
\* call is over every source file of the directory has been loaded.
C3_LoadFailureDoesNotAbortScan ==
    (pc \in Ended /\ PlainCall)
        => \A i \in Here : IsSource(i) => EntryPath(i) \in Range(loaded)

---------------------------------------------------------------------------
(* C4 *)

\* C4: a source file whose load failed contributes no candidate.
C4_FailedLoadContributesNothing ==
    \A k \in 1..Len(objs) : objs[k].module_path \notin Range(warnings)

---------------------------------------------------------------------------
(* C5 *)

\* the call reached the decision of lines 71-82
Decided == {"not_found", "instantiated", "ambiguous"}

\* C5: the constructor is invoked at most once in a call; it is invoked, on
\* the single candidate, exactly when the accumulated list has exactly one
\* element, and never when the list is empty or has two or more elements or
\* when the call ended before the decision.
C5_InstantiateOnlyUnique ==
    /\ Len(ctor_calls) <= 1
    /\ pc \in Decided => (Len(ctor_calls) = 1 <=> Len(objs) = 1)
    /\ Len(ctor_calls) = 1 =>
          /\ pc = "instantiated"
          /\ Len(objs) = 1
          /\ ctor_calls[1].cls = objs[1].obj
    /\ pc \notin Decided => ctor_calls = <<>>

C5_Witness ==
    /\ pc = "instantiated"
    /\ Len(objs) = 1
    /\ Len(ctor_calls) = 1
    /\ Len(loaded) >= 2

---------------------------------------------------------------------------
(* C6 *)

\* C6: a call on a directory with exactly one matching implementation returns
\* an instance of that implementation and the path of its file.
C6_UniqueMatchIsReturned ==
    (pc \in Ended /\ PlainCall /\ Cardinality(Matching) = 1)
        => LET i == CHOOSE j \in Matching : TRUE IN
           /\ pc = "instantiated"
           /\ result.kind = "return"
           /\ result.instance.name = ObjectName
           /\ result.instance.module = EntryPath(i)
           /\ result.module_path = EntryPath(i)

---------------------------------------------------------------------------
(* C7 *)

\* C7: a call on a directory with no matching implementation returns
\* (None, None) and raises nothing.
C7_NoMatchReturnsNone ==
    (pc \in Ended /\ PlainCall /\ Matching = {})
        => /\ pc = "not_found"
           /\ result = [NoResult EXCEPT !.kind = "return"]

---------------------------------------------------------------------------
(* C8 *)

---------------------------------------------------------------------------
(* C9 *)

\* C9: a call ends only from AGGREGATED: every step that ends the call is
\* taken after the whole listing has been examined.
C9_EndsOnlyAfterAggregated ==
    [][ (PlainCall /\ pc \notin Ended /\ pc' \in Ended)
            => (pc = "aggregated" /\ todo = <<>>) ]_vars

---------------------------------------------------------------------------
(* C10 *)

\* the kind of the file at module path p
KindAt(p) == fs[CHOOSE i \in FileAt(p) : TRUE].kind

\* C10: every candidate the matcher returned is a class of the requested
\* name, bound in its file by a class statement that names the base type
\* among the immediate bases; a file that derives the requested name from the
\* base type through an intermediate class only, or defines other names only,
\* yields no candidate; and a file yields at most one candidate.
C10_MatcherExactNameDirectBase ==
    /\ \A k \in 1..Len(objs) :
          /\ objs[k].obj.name = ObjectName
          /\ ObjectType \in objs[k].obj.bases
          /\ objs[k].obj.module = objs[k].module_path
          /\ Defines(KindAt(objs[k].module_path))
    /\ \A p \in Range(loaded) :
          (FileAt(p) # {} /\ ~Defines(KindAt(p))) => p \notin Range(module_paths(objs))
    /\ \A k, l \in 1..Len(objs) : objs[k].module_path = objs[l].module_path => k = l

C10_Witness ==
    /\ pc = "aggregated"
    /\ Len(objs) = 1
    /\ \E p \in Range(loaded) : KindAt(p) = "indirect"
    /\ \E p \in Range(loaded) : KindAt(p) = "other"

---------------------------------------------------------------------------
(* C11 *)

\* C11: every path handed to the loader is the location of an entry directly
\* inside the directory of the call that is a regular file with the
\* source-file extension.
C11_LoadsOnlySourceFiles ==
    directory.abs
        => \A p \in Range(loaded) : \E i \in Here : EntryPath(i) = p /\ IsSource(i)

---------------------------------------------------------------------------
(* C13 *)

\* C13: whether the directory is given relative or absolute, every module
\* path the call loads or reports is the absolute location of an entry of the
\* listing of that directory.
C13_ModulePathIsEntryLocation ==
    /\ \A p \in Range(loaded) : \E i \in Here : EntryPath(i) = p
    /\ \A k \in 1..Len(objs) : \E i \in Here : EntryPath(i) = objs[k].module_path

---------------------------------------------------------------------------
(* C12 *)

\* C12: a call on the directory of an earlier call, whatever the order the
\* directory now lists its files in, ends with the same kind of outcome as
\* the earlier call, with the same implementation and source path when it
\* instantiates and the same set of colliding paths when it is ambiguous.
C12_OutcomeIndependentOfOrder ==
    (pc \in Ended /\ prev # NoPrev /\ prev.dir = directory)
        => /\ pc = prev.kind
           /\ result.instance = prev.instance
           /\ result.module_path = prev.module_path
           /\ Range(result.paths) = Range(prev.paths)

C12_Witness ==
    /\ pc = "ambiguous"
    /\ prev.kind = "ambiguous"
    /\ prev.dir = directory
    /\ result.paths # prev.paths

---------------------------------------------------------------------------
(* C14 *)

\* telegram is active at call k: an earlier call started it and no call in
\* between stopped it
ActiveAt(k) ==
    \E j \in 1..(k - 1) :
        /\ telegram_calls[j].fn = "init"
        /\ \A l \in (j + 1)..(k - 1) : telegram_calls[l].fn # "cleanup"

\* C14: every message forwarded to telegram is forwarded while telegram is
\* active, after an init that enabled it and not after a later cleanup; and
\* REGISTERED_MODULES holds 'telegram' at most once.
C14_ForwardOnlyWhileActive ==
    /\ \A k \in 1..Len(telegram_calls) :
          telegram_calls[k].fn = "send_msg" => ActiveAt(k)
    /\ Cardinality({ k \in 1..Len(REGISTERED_MODULES) :
                        REGISTERED_MODULES[k] = "telegram" }) <= 1

==========================================================================
